---- MODULE Spec2Model ----
(***************************************************************************)
(* The photo lightbox of the portfolio site: the LightboxProvider state    *)
(* container (contexts/LightboxContext), the Lightbox surface that renders *)
(* the current photo and handles keyboard / pointer input, and the image   *)
(* element whose load event marks the photo as painted.                    *)
(*                                                                         *)
(* One action is one browser event (or one call of a provider operation    *)
(* by a consumer of the context): the handler, the re-render it causes and *)
(* the effects of that render (imageLoaded reset, info reset, keydown      *)
(* listener re-registration, mount / unmount of the keyed image).          *)
(***************************************************************************)
EXTENDS Integers, Sequences, FiniteSets

\* ---- bounds of the model -------------------------------------------------
MaxLen == 3          \* longest photo sequence a caller passes
MaxDrift == 1        \* how far past -1..MaxLen an unguarded index may run

\* ---- data -----------------------------------------------------------------
\* A photo is identified by its gallery and its position in the gallery.
Gallery(g, n) == [k \in 1..n |-> <<g, k>>]

\* Two collections suffice to tell a sequence from another of the same length.
Galleries == {"a", "b"}

PhotoSeqs == {Gallery(g, n) : g \in Galleries, n \in 0..MaxLen}

IndexArgs == -1..MaxLen

Keys == {"Escape", "ArrowRight", "ArrowLeft", "i", "I", "Enter"}

ClickTargets == {"backdrop", "photo", "topbar", "panel"}

\* the two renderings of the InfoPanel, each with its own tag links
TagLinks == {"tagLinkDesktop", "tagLinkMobile"}

NoImg == [key |-> 0, src |-> <<"", 0>>, status |-> "none"]

VARIABLES
  isOpen,          \* LightboxProvider: useState(false)
  photos,          \* LightboxProvider: useState<Photo[]>([])
  currentIndex,    \* LightboxProvider: useState(0)
  bodyOverflow,    \* document.body.style.overflow
  imageLoaded,     \* Lightbox: useState(false)
  showInfo,        \* Lightbox: useState(false)
  keydownHandlers, \* window 'keydown' listeners, each with the showInfo it closed over
  img,             \* the mounted <img> of the keyed photo container, or NoImg
  detached,        \* the last unmounted <img> whose request is still pending, or NoImg
  last,            \* the event handled by the last step (history)
  photo,           \* the photo document the viewer and its InfoPanel render
  imageUrl,        \* Lightbox: the width and quality given to the image builder
  displayDate,     \* InfoPanel: the value rendered under "Date"
  tagLinks,        \* InfoPanel: the Collections links of both renderings
  submissionStore, \* lib/rateLimit: Map<ip, timestamps>
  now,             \* Date.now() of the server process, in milliseconds
  env,             \* process.env of the server process
  response,        \* the last response of /api/contact and what the handler did
  granted,         \* history: per IP, the latest times checkRateLimit returned true
  uncleanedStore,  \* history: the store as it would be had no cleanup ever run
  revalidated,     \* the (path, type) pairs revalidatePath was called with
  revalidation,    \* the last request to /api/revalidate and its answer
  currentPage,     \* Pagination prop
  totalPages,      \* Pagination prop
  pageNumbers      \* Pagination: getPageNumbers(), or null when nothing renders

lightboxVars == <<isOpen, photos, currentIndex, bodyOverflow, imageLoaded,
                  showInfo, keydownHandlers, img, detached, last>>

\* what a photo document is rendered to (width, quality, date, tag links)
panelVars == <<photo, imageUrl, displayDate, tagLinks>>

\* the contact form's server side: rate limiter and POST /api/contact
contactVars == <<submissionStore, now, env, response, granted, uncleanedStore>>

\* the revalidation route: its calls of revalidatePath and its last answer
revalidateVars == <<revalidated, revalidation>>

\* the pagination bar of a gallery page
paginationVars == <<currentPage, totalPages, pageNumbers>>

\* the state the lightbox's events never touch
outsideLightbox == <<panelVars, contactVars, revalidateVars, paginationVars>>

outsidePanel == <<lightboxVars, contactVars, revalidateVars, paginationVars>>

outsideContact == <<lightboxVars, panelVars, revalidateVars, paginationVars>>

outsideRevalidate == <<lightboxVars, panelVars, paginationVars>>

outsidePagination == <<lightboxVars, panelVars, contactVars, revalidateVars>>

vars == <<lightboxVars, outsideLightbox>>

\* ---- LightboxProvider -------------------------------------------------------
\* The provider state as a record; every operation maps the state to the next.
ProviderState == [isOpen |-> isOpen, photos |-> photos,
                  currentIndex |-> currentIndex, overflow |-> bodyOverflow]

\* an open that forgets setCurrentIndex(startIndex)
openLightboxKeepsIndex(newPhotos, startIndex) ==
  [isOpen |-> TRUE, photos |-> newPhotos, currentIndex |-> currentIndex,
   overflow |-> "hidden"]

openLightbox(newPhotos, startIndex) ==
  [isOpen |-> TRUE, photos |-> newPhotos, currentIndex |-> startIndex,
   overflow |-> "hidden"]

\* a close that leaves the body's scroll lock in place
closeLightboxKeepsScrollLock == [ProviderState EXCEPT !.isOpen = FALSE]

\* a close that also clears the sequence and the index
closeLightboxClears ==
  [isOpen |-> FALSE, photos |-> <<>>, currentIndex |-> 0, overflow |-> "unset"]

closeLightbox ==
  [ProviderState EXCEPT !.isOpen = FALSE, !.overflow = "unset"]

\* an advance that stops at the last photo instead of wrapping
nextIndexClamps(prevIndex, len) ==
  IF prevIndex = len - 1 THEN prevIndex ELSE prevIndex + 1

nextIndex(prevIndex, len) == IF prevIndex = len - 1 THEN 0 ELSE prevIndex + 1

prevIndexOf(prevIndex, len) == IF prevIndex = 0 THEN len - 1 ELSE prevIndex - 1

nextPhoto ==
  [ProviderState EXCEPT !.currentIndex = nextIndex(currentIndex, Len(photos))]

prevPhoto ==
  [ProviderState EXCEPT !.currentIndex = prevIndexOf(currentIndex, Len(photos))]

setCurrentIndex(index) == [ProviderState EXCEPT !.currentIndex = index]

\* ---- Lightbox surface -------------------------------------------------------
\* photos[currentIndex] is defined (JavaScript arrays are 0-based).
HasPhoto(p, i) == i >= 0 /\ i < Len(p)

currentPhoto(p, i) == p[i + 1]

\* "if (!isOpen || !currentPhoto) return null": the surface renders something.
Rendered(o, p, i) == o /\ HasPhoto(p, i)

Shown == Rendered(isOpen, photos, currentIndex)

\* a toggle that can only show the panel
toggleInfoShows(prev) == TRUE

toggleInfo(prev) == ~prev

\* The keyed photo container: React keeps the <img> element across a render
\* only when the surface stays mounted and key={currentIndex} is unchanged.
SameElement(oldKey, newKey) == oldKey = newKey

\* React delivers a load event to onLoad only for an element that is still
\* mounted; the element of a superseded key has been removed with its fiber.
onLoadRunsAlways(mounted) == TRUE

onLoadRuns(mounted) == mounted

InBounds(i) == i >= -1 - MaxDrift /\ i <= MaxLen + MaxDrift

\* The label of a step: the operation run, the event that ran it, its
\* arguments, and what the step started from.
Label(op, ev, arg, idx) ==
  [op |-> op, ev |-> ev, arg |-> arg, idx |-> idx,
   wasOpen |-> isOpen, wasShown |-> Shown, wasInfo |-> showInfo,
   wasLoaded |-> imageLoaded]

\* useEffect(() => { setImageLoaded(false) }, [currentIndex]):
\* il is imageLoaded after the handler, i the index rendered
imageLoadedEffectNever(i, il) == il

imageLoadedEffectAlways(i, il) == FALSE

imageLoadedEffect(i, il) == IF i # currentIndex THEN FALSE ELSE il

\* useEffect(() => { if (!isOpen) setShowInfo(false) }, [isOpen])
showInfoEffectNever(o, si) == si

showInfoEffect(o, si) == IF o # isOpen /\ ~o THEN FALSE ELSE si

\* keyboard effect: the cleanup removes the listener of the previous render,
\* then "if (!isOpen) return", else a listener closing over showInfo is added
keyboardEffectNoCleanup(o, si) ==
  IF o THEN Append(keydownHandlers, [showInfo |-> si]) ELSE keydownHandlers

keyboardEffect(o, si) ==
  LET cleaned == IF keydownHandlers = <<>> THEN <<>>
                 ELSE SubSeq(keydownHandlers, 1, Len(keydownHandlers) - 1)
  IN IF o THEN Append(cleaned, [showInfo |-> si]) ELSE cleaned

\* The render that follows a handler and the effects of that render.
\*   st  provider state after the handler     el  the mounted <img> after it
\*   il  imageLoaded after the handler        si  showInfo after the handler
Commit(st, il, si, el, lbl) ==
  LET o == st.isOpen
      p == st.photos
      i == st.currentIndex
      il2 == imageLoadedEffect(i, il)
      si2 == showInfoEffect(o, si)
      shown == Rendered(o, p, i)
      kept == Shown /\ shown /\ SameElement(el.key, i)
      fresh == [key |-> i, src |-> currentPhoto(p, i), status |-> "loading"]
  IN /\ InBounds(i)
     /\ isOpen' = o
     /\ photos' = p
     /\ currentIndex' = i
     /\ bodyOverflow' = st.overflow
     /\ imageLoaded' = il2
     /\ showInfo' = si2
     /\ keydownHandlers' = keyboardEffect(o, si2)
     /\ img' = IF ~shown THEN NoImg
               ELSE IF kept /\ el.src = currentPhoto(p, i) THEN el
               ELSE fresh
     /\ detached' = IF Shown /\ ~kept /\ el.status = "loading" THEN el
                    ELSE detached
     /\ last' = lbl
     /\ UNCHANGED outsideLightbox

\* ---- keyboard -----------------------------------------------------------------
\* a handler whose Escape closes the viewer whatever the panel shows
handleKeyDownEscapeCloses(h, key) ==
  CASE key = "Escape" ->
         [st |-> closeLightbox, si |-> showInfo, op |-> "close"]
    [] key = "ArrowRight" ->
         [st |-> nextPhoto, si |-> showInfo, op |-> "next"]
    [] key = "ArrowLeft" ->
         [st |-> prevPhoto, si |-> showInfo, op |-> "prev"]
    [] key \in {"i", "I"} ->
         [st |-> ProviderState, si |-> toggleInfo(showInfo), op |-> "toggleInfo"]
    [] OTHER ->
         [st |-> ProviderState, si |-> showInfo, op |-> "none"]

\* handleKeyDown of the listener that closed over showInfo = h.showInfo
handleKeyDown(h, key) ==
  CASE key = "Escape" /\ h.showInfo ->
         [st |-> ProviderState, si |-> FALSE, op |-> "hideInfo"]
    [] key = "Escape" /\ ~h.showInfo ->
         [st |-> closeLightbox, si |-> showInfo, op |-> "close"]
    [] key = "ArrowRight" ->
         [st |-> nextPhoto, si |-> showInfo, op |-> "next"]
    [] key = "ArrowLeft" ->
         [st |-> prevPhoto, si |-> showInfo, op |-> "prev"]
    [] key \in {"i", "I"} ->
         [st |-> ProviderState, si |-> toggleInfo(showInfo), op |-> "toggleInfo"]
    [] OTHER ->
         [st |-> ProviderState, si |-> showInfo, op |-> "none"]

KeyDown(key) ==
  IF keydownHandlers = <<>>
  THEN /\ last' = Label("none", key, <<>>, 0)
       /\ UNCHANGED <<isOpen, photos, currentIndex, bodyOverflow, imageLoaded,
                      showInfo, keydownHandlers, img, detached>>
       /\ UNCHANGED outsideLightbox
  ELSE LET r == handleKeyDown(keydownHandlers[Len(keydownHandlers)], key)
       IN Commit(r.st, imageLoaded, r.si, img, Label(r.op, key, <<>>, 0))

\* ---- pointer ------------------------------------------------------------------
\* a backdrop handler that closes on every click that reaches it
handleBackdropClickAnyTarget(target) == [st |-> closeLightbox, op |-> "close"]

\* "if (e.target === e.currentTarget) closeLightbox()"
handleBackdropClick(target) ==
  IF target = "backdrop" THEN [st |-> closeLightbox, op |-> "close"]
  ELSE [st |-> ProviderState, op |-> "none"]

\* the photo container and the InfoPanel's <aside> stop propagation, so
\* their clicks never reach the backdrop's handler
StopsPropagation(target) == target \in {"photo", "panel"}

Click(target) ==
  /\ Shown
  /\ target = "panel" => showInfo
  /\ LET r == IF StopsPropagation(target)
              THEN [st |-> ProviderState, op |-> "none"]
              ELSE handleBackdropClick(target)
     IN Commit(r.st, imageLoaded, showInfo, img, Label(r.op, target, <<>>, 0))

\* onClick={toggleInfo} of the info button; the click then bubbles to the
\* backdrop with the button as its target
ClickInfo ==
  /\ Shown
  /\ Commit(handleBackdropClick("infoButton").st, imageLoaded,
            toggleInfo(showInfo), img,
            Label("toggleInfo", "infoButton", <<>>, 0))

\* onClose={toggleInfo} of the InfoPanel's close buttons (inside the <aside>)
PanelClose ==
  /\ Shown /\ showInfo
  /\ Commit(ProviderState, imageLoaded, toggleInfo(showInfo), img,
            Label("toggleInfo", "panelClose", <<>>, 0))

ClickClose ==
  /\ Shown
  /\ Commit(closeLightbox, imageLoaded, showInfo, img,
            Label("close", "closeButton", <<>>, 0))

\* the previous / next buttons are rendered when photos.length > 1; their
\* handlers stop propagation
ClickNext ==
  /\ Shown /\ Len(photos) > 1
  /\ Commit(nextPhoto, imageLoaded, showInfo, img,
            Label("next", "nextButton", <<>>, 0))

ClickPrev ==
  /\ Shown /\ Len(photos) > 1
  /\ Commit(prevPhoto, imageLoaded, showInfo, img,
            Label("prev", "prevButton", <<>>, 0))

\* a Collections link of the InfoPanel: the desktop sidebar's <Link> has
\* onClick={() => { closeLightbox() }}, the mobile bottom sheet's has no
\* onClick; the navigation keeps the provider of the root layout mounted
tagLinkOnClick(link) ==
  IF link = "tagLinkDesktop" THEN [st |-> closeLightbox, op |-> "close"]
  ELSE [st |-> ProviderState, op |-> "none"]

TagLinkClick(link) ==
  /\ Shown /\ showInfo
  /\ LET r == tagLinkOnClick(link)
     IN Commit(r.st, imageLoaded, showInfo, img, Label(r.op, link, <<>>, 0))

\* PhotoGrid: onClick={() => openLightbox(photos, index)} on a rendered photo
GridClick(g, n, index) ==
  /\ n >= 1 /\ index \in 0..(n - 1)
  /\ Commit(openLightbox(Gallery(g, n), index), imageLoaded, showInfo, img,
            Label("open", "grid", Gallery(g, n), index))

\* ---- image loading ------------------------------------------------------------
\* onLoad={() => setImageLoaded(true)} of the mounted <img>
ImgLoad ==
  /\ img.status = "loading"
  /\ Commit(ProviderState,
            IF onLoadRuns(TRUE) THEN TRUE ELSE imageLoaded, showInfo,
            [img EXCEPT !.status = "loaded"],
            Label("load", "img", <<>>, img.key))

\* the request fails: the <img> has no onError
ImgError ==
  /\ img.status = "loading"
  /\ Commit(ProviderState, imageLoaded, showInfo,
            [img EXCEPT !.status = "failed"],
            Label("error", "img", <<>>, img.key))

\* the pending request of an unmounted <img> completes
DetachedLoad ==
  /\ detached.status = "loading"
  /\ detached' = NoImg
  /\ imageLoaded' = IF onLoadRuns(FALSE) THEN TRUE ELSE imageLoaded
  /\ last' = Label("load", "detached", <<>>, detached.key)
  /\ UNCHANGED <<isOpen, photos, currentIndex, bodyOverflow, showInfo,
                 keydownHandlers, img>>
  /\ UNCHANGED outsideLightbox

\* ---- the context's operations called by any consumer --------------------------
ApiOpen(newPhotos, startIndex) ==
  Commit(openLightbox(newPhotos, startIndex), imageLoaded, showInfo, img,
         Label("open", "api", newPhotos, startIndex))

ApiClose ==
  Commit(closeLightbox, imageLoaded, showInfo, img,
         Label("close", "api", <<>>, 0))

ApiNext ==
  Commit(nextPhoto, imageLoaded, showInfo, img, Label("next", "api", <<>>, 0))

ApiPrev ==
  Commit(prevPhoto, imageLoaded, showInfo, img, Label("prev", "api", <<>>, 0))

\* nextPhoto() and prevPhoto() called in one event handler: React queues both
\* updaters and applies them in order, with the photos of that render
nextThenPrev ==
  [ProviderState EXCEPT !.currentIndex =
     prevIndexOf(nextIndex(currentIndex, Len(photos)), Len(photos))]

prevThenNext ==
  [ProviderState EXCEPT !.currentIndex =
     nextIndex(prevIndexOf(currentIndex, Len(photos)), Len(photos))]

ApiNextPrev ==
  Commit(nextThenPrev, imageLoaded, showInfo, img,
         Label("nextprev", "api", <<>>, 0))

ApiPrevNext ==
  Commit(prevThenNext, imageLoaded, showInfo, img,
         Label("prevnext", "api", <<>>, 0))

ApiSeek(index) ==
  Commit(setCurrentIndex(index), imageLoaded, showInfo, img,
         Label("seek", "api", <<>>, index))

\* ---- specification ------------------------------------------------------------
\* the value JavaScript calls undefined
undefined == [t |-> "undefined"]

\* no photo document has been rendered yet
PanelIdle ==
  /\ photo = undefined
  /\ imageUrl = undefined
  /\ displayDate = undefined
  /\ tagLinks = undefined

\* a Map with no entry
EmptyMap == [ip \in {} |-> <<>>]

\* what the server did last: a checkRateLimit call ("check"), a cleanup, or
\* a request to /api/contact ("post": its status, whether its body was valid,
\* whether the limiter was asked and answered yes, whether the email went
\* out; turn flips at each request)
NoResponse == [kind |-> "none", status |-> 0, ip |-> "", valid |-> FALSE,
               checked |-> FALSE, allowed |-> FALSE, sent |-> FALSE,
               turn |-> FALSE]

\* the contact route has served nothing
ContactIdle ==
  /\ submissionStore = EmptyMap
  /\ now = 0
  /\ env = [RESEND_API_KEY |-> TRUE, CONTACT_EMAIL |-> TRUE,
            REVALIDATION_SECRET |-> undefined]
  /\ response = NoResponse
  /\ granted = EmptyMap
  /\ uncleanedStore = EmptyMap

NoRequest == [method |-> "", status |-> 0, header |-> undefined,
              json |-> FALSE, path |-> undefined, called |-> FALSE,
              turn |-> FALSE]

\* the revalidation route has served nothing
RevalidateIdle ==
  /\ revalidated = {}
  /\ revalidation = NoRequest

\* no gallery page has been rendered
PaginationIdle ==
  /\ currentPage = 1
  /\ totalPages = 0
  /\ pageNumbers = [t |-> "none", pages |-> <<>>]

LightboxIdle ==
  /\ isOpen = FALSE
  /\ photos = <<>>
  /\ currentIndex = 0
  /\ bodyOverflow = ""
  /\ imageLoaded = FALSE
  /\ showInfo = FALSE
  /\ keydownHandlers = <<>>
  /\ img = NoImg
  /\ detached = NoImg
  /\ last = [op |-> "init", ev |-> "init", arg |-> <<>>, idx |-> 0,
             wasOpen |-> FALSE, wasShown |-> FALSE, wasInfo |-> FALSE,
             wasLoaded |-> FALSE]

Init ==
  /\ LightboxIdle
  /\ PanelIdle
  /\ ContactIdle
  /\ RevalidateIdle
  /\ PaginationIdle

Next ==
  \/ \E key \in Keys : KeyDown(key)
  \/ ClickInfo
  \/ PanelClose
  \/ ClickClose
  \/ ClickNext
  \/ ClickPrev
  \/ \E target \in ClickTargets : Click(target)
  \/ \E link \in TagLinks : TagLinkClick(link)
  \/ \E g \in Galleries, n \in 1..MaxLen, index \in 0..MaxLen :
       GridClick(g, n, index)
  \/ ImgLoad
  \/ ImgError
  \/ DetachedLoad
  \/ \E newPhotos \in PhotoSeqs, startIndex \in IndexArgs :
       ApiOpen(newPhotos, startIndex)
  \/ ApiClose
  \/ ApiNext
  \/ ApiPrev
  \/ ApiNextPrev
  \/ ApiPrevNext
  \/ \E index \in IndexArgs : ApiSeek(index)

Spec == Init /\ [][Next]_vars

\* ---- properties ---------------------------------------------------------------
ValidOpen(s, i) == Len(s) > 0 /\ i >= 0 /\ i < Len(s)

provider == <<isOpen, photos, currentIndex>>

\* C1: whenever isOpen is true the sequence is non-empty and
\* 0 <= currentIndex < sequence.length.
C1_OpenIndexInRange ==
  isOpen => (Len(photos) > 0 /\ currentIndex >= 0 /\ currentIndex < Len(photos))

\* C2: an open whose precondition is violated (empty sequence or startIndex
\* out of range) changes none of isOpen, sequence, currentIndex.
C2_InvalidOpenIgnored ==
  [][(last'.op = "open" /\ ~ValidOpen(last'.arg, last'.idx))
       => UNCHANGED provider]_vars

\* C3: a valid open, from any prior state, sets isOpen, stores the sequence
\* passed and sets currentIndex to startIndex, all in the one step.
C3_ValidOpenSetsAll ==
  [][(last'.op = "open" /\ ValidOpen(last'.arg, last'.idx))
       => (isOpen' /\ photos' = last'.arg /\ currentIndex' = last'.idx)]_vars

\* an open through the context while the viewer was already open
C3_Witness ==
  /\ last.op = "open" /\ last.ev = "api" /\ last.wasOpen
  /\ ValidOpen(last.arg, last.idx) /\ last.idx > 0
  /\ isOpen /\ photos = last.arg /\ currentIndex = last.idx

\* C4: while the viewer is open on a sequence of length n >= 1, next() sets
\* currentIndex to (currentIndex + 1) mod n (so that n calls bring it back
\* to where it started).
C4_NextWraps ==
  [][(isOpen /\ Len(photos) >= 1 /\ last'.op = "next")
       => currentIndex' = (currentIndex + 1) % Len(photos)]_vars

\* C5: while the viewer is open on a sequence of length n >= 1, previous()
\* sets currentIndex to (currentIndex - 1 + n) mod n; right after
\* open(seq, 0) it yields n - 1.
C5_PrevWraps ==
  /\ [][(isOpen /\ Len(photos) >= 1 /\ last'.op = "prev")
          => currentIndex' = (currentIndex - 1 + Len(photos)) % Len(photos)]_vars
  /\ [][(isOpen /\ last.op = "open" /\ last.idx = 0 /\ last'.op = "prev")
          => currentIndex' = Len(photos) - 1]_vars

\* C6: next() and previous() change nothing while the viewer is not open.
C6_ClosedNavigationNoop ==
  [][(~isOpen /\ last'.op \in {"next", "prev"}) => UNCHANGED provider]_vars

\* C7: close() always succeeds, sets isOpen to false, leaves sequence and
\* currentIndex as they were, and a second close() changes nothing.
C7_Close ==
  /\ [](ENABLED ApiClose)
  /\ [][(last'.op = "close")
          => (~isOpen' /\ photos' = photos /\ currentIndex' = currentIndex)]_vars
  /\ [][(last.op = "close" /\ last'.op = "close")
          => UNCHANGED <<isOpen, photos, currentIndex, bodyOverflow,
                         imageLoaded, showInfo, keydownHandlers, img>>]_vars

\* a second close() in a row, on a viewer that had shown a photo
C7_Witness ==
  /\ last.op = "close" /\ ~last.wasOpen /\ ~isOpen
  /\ Len(photos) >= 2 /\ currentIndex > 0

\* C8: seek(index) changes nothing when the viewer is not open or index is
\* outside 0..sequence.length-1; otherwise it sets currentIndex to index and
\* nothing else.
C8_SeekGuarded ==
  [][(last'.op = "seek")
       => IF isOpen /\ last'.idx >= 0 /\ last'.idx < Len(photos)
          THEN currentIndex' = last'.idx /\ UNCHANGED <<isOpen, photos>>
          ELSE UNCHANGED provider]_vars

\* C9: an Escape press while the viewer is open hides the panel and leaves
\* the viewer open if the panel is visible, and closes the viewer only if the
\* panel is hidden.
C9_TwoStageEscape ==
  [][(isOpen /\ last'.ev = "Escape")
       => IF showInfo
          THEN isOpen' /\ ~showInfo' /\ photos' = photos
               /\ currentIndex' = currentIndex
          ELSE ~isOpen']_vars

\* Escape with the panel visible: the panel is hidden, the viewer still open
C9_Witness ==
  /\ last.ev = "Escape" /\ last.op = "hideInfo" /\ last.wasShown
  /\ isOpen /\ ~showInfo

\* C10: the load signal of an image whose index is not the current index
\* never sets imageLoaded; the surface turns ready on a load signal only when
\* the load is that of the current index's image.
C10_StaleLoadIgnored ==
  /\ [][(last'.op = "load" /\ last'.idx # currentIndex)
          => imageLoaded' = imageLoaded]_vars
  /\ [][(last'.op = "load" /\ ~imageLoaded /\ imageLoaded')
          => (Shown /\ last'.idx = currentIndex'
              /\ img'.status = "loaded" /\ img'.key = currentIndex'
              /\ img'.src = currentPhoto(photos', currentIndex'))]_vars

\* the load of a superseded index completes while the current one is pending
C10_Witness ==
  /\ last.op = "load" /\ last.ev = "detached" /\ last.idx # currentIndex
  /\ Shown /\ ~imageLoaded /\ img.status = "loading"

\* Open-Ready: the surface is rendered and shows no spinner
Ready == Shown /\ imageLoaded

PointerEvents ==
  ClickTargets \cup TagLinks
    \cup {"infoButton", "panelClose", "closeButton", "nextButton", "prevButton"}

\* C11: every transition from closed to open, a reopen at the same index
\* included, arrives with the image not marked loaded: the photo is not
\* shown as ready before its image has loaded.
C11_OpenStartsLoading ==
  [][(~isOpen /\ isOpen') => ~Ready']_vars

C13_IndexChangeResets ==
  /\ [][(isOpen /\ isOpen' /\ currentIndex' # currentIndex)
          => ~imageLoaded']_vars
  /\ [][(~imageLoaded /\ imageLoaded')
          => (last'.op = "load" /\ last'.ev = "img"
              /\ last'.idx = currentIndex' /\ img'.status = "loaded")]_vars

\* next() on a ready surface: the new image is loading, the spinner is back
C13_Witness ==
  /\ last.op = "next" /\ last.wasShown /\ last.wasLoaded
  /\ Shown /\ ~imageLoaded /\ img.status = "loading"

\* C14: a failed load changes no state, and while the failed image is the
\* current one the surface stays loading (never ready).
C14_FailedStaysLoading ==
  /\ [][(last'.op = "error")
          => UNCHANGED <<isOpen, photos, currentIndex, imageLoaded, showInfo>>]_vars
  /\ []((Shown /\ img.status = "failed") => ~imageLoaded)

\* C15: toggling the panel flips showInfo and changes none of isOpen,
\* sequence, currentIndex, imageLoaded.
C15_ToggleOnlyPanel ==
  [][(last'.op = "toggleInfo")
       => (showInfo' = ~showInfo
           /\ UNCHANGED <<isOpen, photos, currentIndex, imageLoaded>>)]_vars

\* the panel's own close button on a ready surface past index 0
C15_Witness ==
  /\ last.op = "toggleInfo" /\ last.ev = "panelClose" /\ last.wasInfo
  /\ ~showInfo /\ Ready /\ currentIndex > 0

\* C16: next, previous and seek leave showInfo alone; every close hides
\* the panel, so the panel is hidden while closed and on every open.
C16_PanelResetOnClose ==
  /\ [][(last'.op \in {"next", "prev", "seek"}) => showInfo' = showInfo]_vars
  /\ [][(isOpen /\ ~isOpen') => ~showInfo']_vars
  /\ [][(~isOpen /\ isOpen') => ~showInfo']_vars
  /\ [](~isOpen => ~showInfo)

\* the viewer closed through a tag link while the panel was visible
C16_Witness ==
  /\ last.op = "close" /\ last.ev = "tagLinkDesktop" /\ last.wasInfo
  /\ ~isOpen /\ ~showInfo

\* C17: exactly one keydown listener while isOpen and none while closed; a
\* key press while closed runs no operation.
C17_OneHandlerWhileOpen ==
  /\ [](Len(keydownHandlers) = IF isOpen THEN 1 ELSE 0)
  /\ [][(~isOpen /\ last'.ev \in Keys)
          => (last'.op = "none"
              /\ UNCHANGED <<isOpen, photos, currentIndex, showInfo>>)]_vars

\* ArrowRight pressed after the viewer was opened and closed again
C17_Witness ==
  /\ last.ev = "ArrowRight" /\ last.op = "none" /\ ~last.wasOpen
  /\ ~isOpen /\ Len(photos) >= 2 /\ keydownHandlers = <<>>

\* C18: body scroll is locked exactly while isOpen: every open locks it and
\* every close restores it.
C18_ScrollLockedIffOpen ==
  /\ [](isOpen <=> bodyOverflow = "hidden")
  /\ [][(last'.op = "open") => bodyOverflow' = "hidden"]_vars
  /\ [][(last'.op = "close") => bodyOverflow' = "unset"]_vars

\* a close of an open viewer: scroll restored
C18_Witness ==
  /\ last.op = "close" /\ last.wasOpen /\ ~isOpen /\ bodyOverflow = "unset"

\* C19: activating a tag link, desktop or mobile, closes the viewer and
\* restores page scroll.
C19_TagLinkCloses ==
  [][(last'.ev \in TagLinks) => (~isOpen' /\ bodyOverflow' = "unset")]_vars

InRange == isOpen /\ Len(photos) >= 1 /\ currentIndex \in 0..(Len(photos) - 1)

C27_NextPrevInverse ==
  [][InRange =>
       /\ last'.op = "next" =>
            prevIndexOf(currentIndex', Len(photos')) = currentIndex
       /\ last'.op = "prev" =>
            nextIndex(currentIndex', Len(photos')) = currentIndex
       /\ last'.op \in {"nextprev", "prevnext"} =>
            currentIndex' = currentIndex]_vars

\* the batched next()/previous() ran on the last of at least two photos, so
\* both updaters wrapped
C27_Witness ==
  /\ last.op = "nextprev" /\ last.wasOpen /\ last.wasShown
  /\ isOpen /\ Len(photos) >= 2 /\ currentIndex = Len(photos) - 1

\* ==== the photo document as the viewer renders it ===============================
\* Strings are sequences of one-character strings, so that the slug clean-up
\* and the URI encoding are computed character by character.
Str(chars) == [t |-> "string", s |-> chars]

null == [t |-> "null"]

\* x ?? y
Nullish(x) == x.t \in {"undefined", "null"}

Coalesce(x, y) == IF Nullish(x) THEN y ELSE x

\* a string is falsy when it is empty; undefined and null are falsy
Truthy(x) == ~Nullish(x) /\ ~(x.t = "string" /\ x.s = <<>>)

\* -- Lightbox: image parameters ---------------------------------------------------
QualityFlags == {"high", "medium", "low", "ultra", "undefined"}

QualityTiers == <<"low", "medium", "high">>

\* lib/imageBuilder.ts, "Quality Strategy": High (85) is the lightbox's tier
qualityMap == [high |-> 85, medium |-> 75, low |-> 60]

getQuality(displayQuality) ==
  CASE displayQuality = "high" -> 80
    [] displayQuality = "medium" -> 60
    [] displayQuality = "low" -> 40
    [] OTHER -> 80

\* urlFor(image).width(1920).quality(getQuality()).auto('format')
imageUrlOf(displayQuality) ==
  [t |-> "url", width |-> 1920, quality |-> getQuality(displayQuality)]

\* -- InfoPanel: date ----------------------------------------------------------------
MonthNames == <<"January", "February", "March", "April", "May", "June", "July",
                "August", "September", "October", "November", "December">>

NaN == [t |-> "NaN"]

\* the date strings a document may carry: midday timestamps (the same day in
\* every time zone), an empty string and two strings Date cannot parse
DateStrings ==
  {"2024-03-05T12:00:00Z", "2023-12-31T12:00:00Z", "", "not-a-date",
   "2024-13-45"}

\* new Date(dateString): the time value, or NaN (new Date never throws)
NewDate(dateString) ==
  CASE dateString = "2024-03-05T12:00:00Z" -> [t |-> "date", y |-> 2024, m |-> 3, d |-> 5]
    [] dateString = "2023-12-31T12:00:00Z" -> [t |-> "date", y |-> 2023, m |-> 12, d |-> 31]
    [] OTHER -> NaN

\* Date.prototype.toLocaleDateString('en-US', {year, month: 'long', day}):
\* "Invalid Date" for a NaN time value, without throwing
toLocaleDateString(date) ==
  IF date = NaN THEN Str(<<"Invalid Date">>)
  ELSE Str(<<MonthNames[date.m], date.d, date.y>>)

formatDate(dateString) ==
  IF ~Truthy(dateString) THEN null
  ELSE toLocaleDateString(NewDate(dateString.s[1]))

displayDateOf(doc) ==
  IF Truthy(doc.takenAt) THEN formatDate(doc.takenAt)
  ELSE formatDate(doc.createdAt)

DateValues == {undefined} \cup {Str(<<d>>) : d \in DateStrings \ {""}} \cup {Str(<<>>)}

\* -- InfoPanel: tag links -----------------------------------------------------------
\* slugs and document ids (short ones; "tags" merely begins with the letters tag)
Slugs == {<<"a", "b">>, <<"t", "a", "g", "s">>, <<"t", "a", "g", "-", "x">>,
          <<"t", "a", "g">>}

Refs == {<<"r", "1">>, <<"t", "a", "g", ".", "r">>}

Names == {<<"A">>}

\* a tag as the photo queries project it (tags[]-> {_id, _type, name,
\* 'slug': slug.current}), as a whole Tag document (slug: {current}), and
\* as an unresolved reference ({_ref})
Tags ==
  {[name |-> Str(n), slug |-> Str(sl), ref |-> undefined] :
     n \in Names, sl \in Slugs}
  \cup {[name |-> Str(n), slug |-> [t |-> "object", current |-> Str(sl)],
         ref |-> undefined] : n \in Names, sl \in Slugs}
  \cup {[name |-> undefined, slug |-> undefined, ref |-> Str(r)] : r \in Refs}

\* slug.replace(/^tag[._-]?/, '')
StripTagPrefix(chars) ==
  IF Len(chars) >= 3 /\ SubSeq(chars, 1, 3) = <<"t", "a", "g">>
  THEN IF Len(chars) >= 4 /\ chars[4] \in {".", "_", "-"}
       THEN SubSeq(chars, 5, Len(chars))
       ELSE SubSeq(chars, 4, Len(chars))
  ELSE chars

\* String(value)
String(x) ==
  CASE x.t = "string" -> x.s
    [] x.t = "undefined" -> <<"u", "n", "d", "e", "f", "i", "n", "e", "d">>
    [] x.t = "null" -> <<"n", "u", "l", "l">>
    [] OTHER -> <<"[", "o", "b", "j", "e", "c", "t", " ",
                  "O", "b", "j", "e", "c", "t", "]">>

\* encodeURIComponent: letters, digits and - _ . are kept, the rest is escaped
EncodeChar(c) ==
  CASE c = " " -> <<"%", "2", "0">>
    [] c = "[" -> <<"%", "5", "B">>
    [] c = "]" -> <<"%", "5", "D">>
    [] OTHER -> <<c>>

RECURSIVE encodeURIComponent(_)
encodeURIComponent(chars) ==
  IF chars = <<>> THEN <<>>
  ELSE EncodeChar(Head(chars)) \o encodeURIComponent(Tail(chars))

TagPath == <<"/", "t", "a", "g", "/">>

tagName(tag) == Coalesce(tag.name, Coalesce(tag.ref, Str(<<"t", "a", "g">>)))

\* `/tag/${cleanedSlug}` when cleanedSlug is truthy, else the encoded String(slug)
hrefOf(slug) ==
  LET cleanedSlug == IF slug.t = "string" THEN Str(StripTagPrefix(slug.s))
                     ELSE undefined
  IN IF Truthy(cleanedSlug) THEN TagPath \o cleanedSlug.s
     ELSE TagPath \o encodeURIComponent(String(slug))

\* desktop sidebar: const slug = tag.slug ?? tag._ref
desktopTagLink(tag) ==
  [label |-> tagName(tag), href |-> hrefOf(Coalesce(tag.slug, tag.ref))]

\* property access of optional chaining: slug?.current
Current(x) ==
  IF Nullish(x) THEN undefined
  ELSE IF x.t = "object" THEN x.current
  ELSE undefined

\* mobile bottom sheet: const slug = tag.slug?.current ?? tag._ref
mobileTagLink(tag) ==
  [label |-> tagName(tag), href |-> hrefOf(Coalesce(Current(tag.slug), tag.ref))]

tagLinksOf(doc) ==
  [t |-> "links",
   desktop |-> [k \in 1..Len(doc.tags) |-> desktopTagLink(doc.tags[k])],
   mobile |-> [k \in 1..Len(doc.tags) |-> mobileTagLink(doc.tags[k])]]

\* -- the documents and their rendering ------------------------------------------------
PhotoDocs ==
  [t : {"photo"}, displayQuality : QualityFlags, takenAt : DateValues,
   createdAt : DateValues, tags : {<<>>} \cup {<<tag>> : tag \in Tags}]

\* a photo document arrives from the content store, not yet rendered
PanelInit ==
  /\ LightboxIdle
  /\ photo \in PhotoDocs
  /\ imageUrl = undefined
  /\ displayDate = undefined
  /\ tagLinks = undefined
  /\ ContactIdle
  /\ RevalidateIdle
  /\ PaginationIdle

\* the viewer renders the document with its panel
ShowPhoto ==
  /\ imageUrl = undefined
  /\ imageUrl' = imageUrlOf(photo.displayQuality)
  /\ displayDate' = displayDateOf(photo)
  /\ tagLinks' = tagLinksOf(photo)
  /\ UNCHANGED <<photo, outsidePanel>>

PanelNext == ShowPhoto

PanelSpec == PanelInit /\ [][PanelNext]_vars

Shows == imageUrl # undefined

\* C21: the image parameters grow with the quality tier (width and quality
\* number), an unknown flag gets the parameters of the high tier, and the
\* quality number of a tier is the one of qualityMap.
C21_QualityTiers ==
  Shows =>
    /\ \A k \in 1..2 :
         LET lower == imageUrlOf(QualityTiers[k])
             upper == imageUrlOf(QualityTiers[k + 1])
         IN upper.width > lower.width /\ upper.quality > lower.quality
    /\ photo.displayQuality \notin {"high", "medium", "low"}
         => imageUrl = imageUrlOf("high")
    /\ photo.displayQuality \in {"high", "medium", "low"}
         => imageUrl.quality = qualityMap[photo.displayQuality]

Parses(dateValue) == Truthy(dateValue) /\ NewDate(dateValue.s[1]) # NaN

\* C22: the displayed date is the formatted takenAt when that parses, else
\* the formatted _createdAt when that parses, else nothing; "Invalid Date" is
\* never displayed.
C22_DisplayDate ==
  Shows =>
    /\ displayDate # Str(<<"Invalid Date">>)
    /\ displayDate =
         IF Parses(photo.takenAt)
         THEN toLocaleDateString(NewDate(photo.takenAt.s[1]))
         ELSE IF Parses(photo.createdAt)
         THEN toLocaleDateString(NewDate(photo.createdAt.s[1]))
         ELSE null

\* the slug string of a resolved tag
SlugOf(tag) == IF tag.slug.t = "object" THEN tag.slug.current.s ELSE tag.slug.s

\* C23: every tag, resolved or bare reference, gets a non-empty label and
\* the target /tag/<slug> in both renderings; for a resolved tag <slug> is
\* the tag's slug string unaltered, and the two renderings agree.
C23_TagLinks ==
  Shows =>
    \A k \in 1..Len(photo.tags) :
      LET tag == photo.tags[k]
          d == tagLinks.desktop[k]
          m == tagLinks.mobile[k]
      IN /\ d.label.s # <<>> /\ m.label.s # <<>>
         /\ d.href = m.href
         /\ Len(d.href) > Len(TagPath)
         /\ SubSeq(d.href, 1, Len(TagPath)) = TagPath
         /\ ~Nullish(tag.slug) => d.href = TagPath \o SlugOf(tag)

\* ==== the contact form's server side =============================================
\* ---- bounds ------------------------------------------------------------------------
MaxJitter == 0       \* milliseconds the clock may run past the end of the window

\* ---- lib/rateLimit ------------------------------------------------------------------
MAX_SUBMISSIONS == 3

TIME_WINDOW == 60 * 60 * 1000

\* submissionStore.get(ip) || []
Get(store, ip) == IF ip \in DOMAIN store THEN store[ip] ELSE <<>>

\* submissionStore.set(ip, value)
Set(store, ip, value) ==
  [k \in DOMAIN store \cup {ip} |-> IF k = ip THEN value ELSE store[k]]

\* submissionStore.delete(ip)
Delete(store, ip) == [k \in DOMAIN store \ {ip} |-> store[k]]

\* timestamps.filter((timestamp) => now - timestamp < TIME_WINDOW)
recent(timestamps, t) ==
  SelectSeq(timestamps, LAMBDA timestamp : t - timestamp < TIME_WINDOW)

\* a limiter that records the rejected attempt as well
checkRateLimitRecordsRejected(store, ip, t) ==
  LET recentTimestamps == recent(Get(store, ip), t)
  IN [allowed |-> Len(recentTimestamps) < MAX_SUBMISSIONS,
      store |-> Set(store, ip, Append(recentTimestamps, t))]

\* a limiter that compares with <= and lets one more through
checkRateLimitOffByOne(store, ip, t) ==
  LET recentTimestamps == recent(Get(store, ip), t)
  IN IF Len(recentTimestamps) <= MAX_SUBMISSIONS
     THEN [allowed |-> TRUE,
           store |-> Set(store, ip, Append(recentTimestamps, t))]
     ELSE [allowed |-> FALSE, store |-> store]

\* the result and the store after checkRateLimit(ip) at time t
checkRateLimit(store, ip, t) ==
  LET recentTimestamps == recent(Get(store, ip), t)
  IN IF Len(recentTimestamps) < MAX_SUBMISSIONS
     THEN [allowed |-> TRUE,
           store |-> Set(store, ip, Append(recentTimestamps, t))]
     ELSE [allowed |-> FALSE, store |-> store]

\* a cleanup that drops the whole entry as soon as one timestamp expired
cleanupDropsEntry(store, ip, t) ==
  LET timestamps == store[ip]
      recentTimestamps == recent(timestamps, t)
  IN IF Len(recentTimestamps) < Len(timestamps) THEN Delete(store, ip)
     ELSE store

\* the body of cleanupOldEntries' loop for one entry
cleanupEntry(store, ip, t) ==
  LET timestamps == store[ip]
      recentTimestamps == recent(timestamps, t)
  IN IF Len(recentTimestamps) = 0 THEN Delete(store, ip)
     ELSE IF Len(recentTimestamps) < Len(timestamps)
     THEN Set(store, ip, recentTimestamps)
     ELSE store

\* for (const [ip, timestamps] of submissionStore.entries()): the entries are
\* independent, so the order of the iteration does not matter
RECURSIVE cleanupFrom(_, _, _)
cleanupFrom(store, ips, t) ==
  IF ips = {} THEN store
  ELSE LET ip == CHOOSE k \in ips : TRUE
       IN cleanupFrom(cleanupEntry(store, ip, t), ips \ {ip}, t)

cleanupOldEntries(store, t) == cleanupFrom(store, DOMAIN store, t)

\* ---- POST /api/contact ----------------------------------------------------------------
\* the headers getClientIP reads: x-forwarded-for is a comma-separated list of
\* which the first entry counts; a request without any of them is "unknown"
Headers ==
  {[forwardedFor |-> <<"ip1", "ip2">>, realIP |-> "ip2", cfConnectingIP |-> ""],
   [forwardedFor |-> <<>>, realIP |-> "ip1", cfConnectingIP |-> "ip2"],
   [forwardedFor |-> <<>>, realIP |-> "", cfConnectingIP |-> "ip1"],
   [forwardedFor |-> <<>>, realIP |-> "", cfConnectingIP |-> ""]}

getClientIP(headers) ==
  IF headers.forwardedFor # <<>> THEN headers.forwardedFor[1]
  ELSE IF headers.realIP # "" THEN headers.realIP
  ELSE IF headers.cfConnectingIP # "" THEN headers.cfConnectingIP
  ELSE "unknown"

\* a field of the body: absent, or a string of which only the trimmed length
\* and, for the email, the match of EMAIL_REGEX matter
Absent == [present |-> FALSE, len |-> 0, matches |-> FALSE]

Field(len, matches) == [present |-> len > 0, len |-> len, matches |-> matches]

ValidBody == [json |-> TRUE, name |-> Field(2, FALSE), email |-> Field(5, TRUE),
              message |-> Field(10, FALSE)]

\* bodies: one request.json() throws on, a valid one, and one per rule of
\* validateFormData
Bodies ==
  {[ValidBody EXCEPT !.json = FALSE],
   ValidBody,
   [ValidBody EXCEPT !.name = Absent],
   [ValidBody EXCEPT !.name = Field(1, FALSE)],
   [ValidBody EXCEPT !.name = Field(101, FALSE)],
   [ValidBody EXCEPT !.email = Field(5, FALSE)],
   [ValidBody EXCEPT !.message = Field(9, FALSE)],
   [ValidBody EXCEPT !.message = Field(5001, FALSE)]}

\* validateFormData(data).isValid: no error was pushed
validateFormData(data) ==
  /\ data.name.present /\ data.email.present /\ data.message.present
  /\ ~(data.name.len < 2) /\ ~(data.name.len > 100)
  /\ data.email.matches
  /\ ~(data.message.len < 10) /\ ~(data.message.len > 5000)

\* what resend.emails.send does: delivers, answers with an error, or throws
SendResults == {"ok", "error", "throws"}

\* a handler that asks the limiter before it validates
PostChecksFirst(st, data, headers, sendResult) ==
  LET clientIP == getClientIP(headers)
      check == checkRateLimit(st.store, clientIP, st.now)
      base == [status |-> 0, ip |-> clientIP, checked |-> TRUE,
               allowed |-> check.allowed, sent |-> FALSE, store |-> check.store]
  IN IF ~check.allowed THEN [base EXCEPT !.status = 429]
     ELSE IF ~data.json THEN [base EXCEPT !.status = 500]
     ELSE IF ~validateFormData(data) THEN [base EXCEPT !.status = 400]
     ELSE IF ~st.env.RESEND_API_KEY \/ ~st.env.CONTACT_EMAIL
     THEN [base EXCEPT !.status = 500]
     ELSE IF sendResult = "ok" THEN [base EXCEPT !.status = 200, !.sent = TRUE]
     ELSE [base EXCEPT !.status = 500]

\* POST: the response and the store after the handler ran on st
Post(st, data, headers, sendResult) ==
  LET clientIP == getClientIP(headers)
      check == checkRateLimit(st.store, clientIP, st.now)
      early == [status |-> 0, ip |-> "", checked |-> FALSE,
                allowed |-> FALSE, sent |-> FALSE, store |-> st.store]
      late == [status |-> 0, ip |-> clientIP, checked |-> TRUE,
               allowed |-> check.allowed, sent |-> FALSE, store |-> check.store]
  IN IF ~data.json THEN [early EXCEPT !.status = 500]
     ELSE IF ~validateFormData(data) THEN [early EXCEPT !.status = 400]
     ELSE IF ~check.allowed THEN [late EXCEPT !.status = 429]
     ELSE IF ~st.env.RESEND_API_KEY THEN [late EXCEPT !.status = 500]
     ELSE IF ~st.env.CONTACT_EMAIL THEN [late EXCEPT !.status = 500]
     ELSE IF sendResult = "ok" THEN [late EXCEPT !.status = 200, !.sent = TRUE]
     ELSE [late EXCEPT !.status = 500]

ServerState == [store |-> submissionStore, now |-> now, env |-> env]

\* the latest MAX_SUBMISSIONS + 1 grants of an IP: time never runs backwards,
\* so four grants inside one window show up as four latest grants
Remember(grants, t) ==
  LET all == Append(grants, t)
  IN IF Len(all) > MAX_SUBMISSIONS + 1 THEN Tail(all) ELSE all

\* the histories after a checkRateLimit(ip) that answered `allowed`
Recorded(ip, allowed) ==
  /\ granted' = IF allowed THEN Set(granted, ip, Remember(Get(granted, ip), now))
                ELSE granted
  /\ uncleanedStore' = checkRateLimit(uncleanedStore, ip, now).store

\* one request to POST /api/contact, handled to its response
ContactPost(data, headers, sendResult) ==
  LET r == Post(ServerState, data, headers, sendResult)
  IN /\ submissionStore' = r.store
     /\ response' = [kind |-> "post", status |-> r.status, ip |-> r.ip,
                     valid |-> data.json /\ validateFormData(data),
                     checked |-> r.checked,
                     allowed |-> r.allowed, sent |-> r.sent,
                     turn |-> ~response.turn]
     /\ IF r.checked THEN Recorded(r.ip, r.allowed)
        ELSE UNCHANGED <<granted, uncleanedStore>>
     /\ UNCHANGED <<now, env, outsideContact>>

ClientIPs == {getClientIP(headers) : headers \in Headers}

\* a call of checkRateLimit(ip) by any importer of lib/rateLimit
CheckRateLimit(ip) ==
  LET r == checkRateLimit(submissionStore, ip, now)
  IN /\ submissionStore' = r.store
     /\ response' = [NoResponse EXCEPT !.kind = "check", !.ip = ip,
                                       !.checked = TRUE, !.allowed = r.allowed]
     /\ Recorded(ip, r.allowed)
     /\ UNCHANGED <<now, env, outsideContact>>

\* setInterval(cleanupOldEntries, 10 * 60 * 1000), at whatever time it fires
Cleanup ==
  /\ submissionStore' = cleanupOldEntries(submissionStore, now)
  /\ response' = [NoResponse EXCEPT !.kind = "cleanup"]
  /\ UNCHANGED <<now, env, granted, uncleanedStore, outsideContact>>

\* the clock advances by a millisecond, by a window less a millisecond, or by
\* a whole window, up to MaxJitter past the end of the first window
Advances == {1, TIME_WINDOW - 1}

Tick(d) ==
  /\ now + d <= TIME_WINDOW + MaxJitter
  /\ (now + d) % (TIME_WINDOW - 1) <= MaxJitter + 1
  /\ now' = now + d
  /\ UNCHANGED <<submissionStore, env, response, granted, uncleanedStore,
                 outsideContact>>

\* the limiter as a module: calls, cleanups and time
LimiterNext ==
  \/ \E ip \in ClientIPs : CheckRateLimit(ip)
  \/ Cleanup
  \/ \E d \in Advances : Tick(d)

LimiterSpec == Init /\ [][LimiterNext]_vars

\* the process starts with its environment, configured or not
ContactInit ==
  /\ LightboxIdle
  /\ PanelIdle
  /\ submissionStore = EmptyMap
  /\ now = 0
  /\ env \in [RESEND_API_KEY : BOOLEAN, CONTACT_EMAIL : BOOLEAN,
               REVALIDATION_SECRET : {undefined}]
  /\ RevalidateIdle
  /\ PaginationIdle
  /\ response = NoResponse
  /\ granted = EmptyMap
  /\ uncleanedStore = EmptyMap

ContactNext ==
  \/ \E data \in Bodies, headers \in Headers, sendResult \in SendResults :
       ContactPost(data, headers, sendResult)
  \/ Cleanup
  \/ Tick(TIME_WINDOW)

ContactSpec == ContactInit /\ [][ContactNext]_vars

\* C24: for every IP, any MAX_SUBMISSIONS + 1 grants of checkRateLimit are
\* spread over at least one window: no window of one hour holds more than
\* three of them, whatever other IPs and cleanups did in between.
C24_AtMostThreePerWindow ==
  \A ip \in DOMAIN granted :
    \A i, j \in 1..Len(granted[ip]) :
      j - i >= MAX_SUBMISSIONS => granted[ip][j] - granted[ip][i] >= TIME_WINDOW

\* both clients were served; one has its fourth grant, a window after its
\* first, and was then turned away
C24_Witness ==
  /\ response.kind = "check" /\ ~response.allowed
  /\ response.ip \in DOMAIN granted
  /\ Len(granted[response.ip]) = MAX_SUBMISSIONS + 1
  /\ \E other \in DOMAIN granted : other # response.ip
  /\ now = TIME_WINDOW

\* a step that is a call of checkRateLimit
IsCheck == response'.kind = "check" /\ now' = now

\* C28: a rejected checkRateLimit records nothing and leaves the store as it
\* was; an IP with MAX_SUBMISSIONS recorded submissions is allowed as soon as
\* the oldest of them is a window old.
C28_RejectedRecordsNothing ==
  /\ [][(IsCheck /\ ~response'.allowed)
          => UNCHANGED <<submissionStore, granted>>]_vars
  /\ [][(IsCheck
          /\ Len(Get(submissionStore, response'.ip)) = MAX_SUBMISSIONS
          /\ now - submissionStore[response'.ip][1] >= TIME_WINDOW)
          => response'.allowed]_vars

\* three submissions at the start, a refusal, and a grant exactly one window
\* after the oldest
C28_Witness ==
  /\ response.kind = "check" /\ response.allowed
  /\ response.ip \in DOMAIN granted
  /\ granted[response.ip] = <<0, 0, 0, TIME_WINDOW>>
  /\ now = TIME_WINDOW

\* a step that is a run of cleanupOldEntries
IsCleanup == response'.kind = "cleanup" /\ now' = now

\* C29: a cleanup keeps of every entry exactly the timestamps younger than
\* the window and deletes the entry when none is left; every call of
\* checkRateLimit answers as it would in the same run without any cleanup.
C29_CleanupTransparent ==
  /\ [][IsCleanup =>
          /\ DOMAIN submissionStore' \subseteq DOMAIN submissionStore
          /\ \A ip \in DOMAIN submissionStore :
               LET kept == recent(submissionStore[ip], now)
               IN IF kept = <<>> THEN ip \notin DOMAIN submissionStore'
                  ELSE /\ ip \in DOMAIN submissionStore'
                       /\ submissionStore'[ip] = kept]_vars
  /\ [][IsCheck =>
          response'.allowed
            = checkRateLimit(uncleanedStore, response'.ip, now).allowed]_vars
  /\ [](\A ip \in ClientIPs :
          recent(Get(submissionStore, ip), now)
            = recent(Get(uncleanedStore, ip), now))

\* a call is refused although a cleanup has removed entries the run without
\* cleanups still holds
C29_Witness ==
  /\ response.kind = "check" /\ ~response.allowed
  /\ \E ip \in DOMAIN uncleanedStore : ip \notin DOMAIN submissionStore
  /\ now = TIME_WINDOW

\* a step that handles a request to /api/contact
IsPost == response'.kind = "post" /\ response'.turn # response.turn

\* C26: validation, then rate limit, then configuration, then send: an
\* invalid request is answered 400 (500 when the body is no JSON) and the
\* limiter is not asked; a refused one is answered 429 and nothing is sent; an
\* email goes out only for a valid request the limiter accepted; an accepted
\* check stays recorded whatever the configuration check or the send do.
C26_ContactOrder ==
  /\ [][(IsPost /\ ~response'.valid)
          => /\ response'.status \in {400, 500}
             /\ ~response'.checked /\ ~response'.sent
             /\ UNCHANGED <<submissionStore, granted>>]_vars
  /\ [][(IsPost /\ response'.valid) => response'.checked]_vars
  /\ [][(IsPost /\ response'.checked /\ ~response'.allowed)
          => /\ response'.status = 429 /\ ~response'.sent
             /\ UNCHANGED submissionStore]_vars
  /\ [][(IsPost /\ response'.sent)
          => /\ response'.valid /\ response'.checked /\ response'.allowed
             /\ response'.status = 200
             /\ env.RESEND_API_KEY /\ env.CONTACT_EMAIL]_vars
  /\ [][(IsPost /\ response'.checked /\ response'.allowed)
          => /\ response'.status \in {200, 500}
             /\ submissionStore'[response'.ip]
                  = Append(recent(Get(submissionStore, response'.ip), now), now)]_vars

\* a valid request was accepted by the limiter as the client's third, the
\* send failed: answered 500, nothing sent, the quota is used up
C26_Witness ==
  /\ response.kind = "post" /\ response.status = 500
  /\ response.valid /\ response.checked /\ response.allowed /\ ~response.sent
  /\ env.RESEND_API_KEY /\ env.CONTACT_EMAIL
  /\ Len(submissionStore[response.ip]) = MAX_SUBMISSIONS

\* ==== POST /api/revalidate ==========================================================
\* secrets, as the environment and the x-revalidate-secret header carry them
Secret == Str(<<"s", "1">>)

OtherSecret == Str(<<"s", "2">>)

\* process.env.REVALIDATION_SECRET: unset, empty or set
EnvSecrets == {undefined, Str(<<>>), Secret}

\* request.headers.get('x-revalidate-secret'): null when the header is absent
HeaderValues == {null, Str(<<>>), Secret, OtherSecret}

\* bodies: one request.json() throws on, then { }, { path: "" }, { path: "/" }
\* and { path: "/p", type: "layout" }
RevalidateBodies ==
  {[json |-> FALSE, path |-> undefined, type |-> undefined],
   [json |-> TRUE, path |-> undefined, type |-> undefined],
   [json |-> TRUE, path |-> Str(<<>>), type |-> undefined],
   [json |-> TRUE, path |-> Str(<<"/">>), type |-> undefined],
   [json |-> TRUE, path |-> Str(<<"/", "p">>), type |-> Str(<<"layout">>)]}

\* revalidatePath returns, or throws into the handler's catch
PathResults == {"ok", "throws"}

\* a handler that compares the secret only when the header is there
revalidatePOSTHeaderOptional(e, header, body, pathResult) ==
  LET expectedSecret == e.REVALIDATION_SECRET
      type == IF body.type = undefined THEN Str(<<"page">>) ELSE body.type
  IN IF ~Truthy(expectedSecret) THEN [status |-> 500, calls |-> {}]
     ELSE IF header # null /\ header # expectedSecret
     THEN [status |-> 401, calls |-> {}]
     ELSE IF ~body.json THEN [status |-> 500, calls |-> {}]
     ELSE IF ~Truthy(body.path) THEN [status |-> 400, calls |-> {}]
     ELSE IF pathResult = "throws"
     THEN [status |-> 500, calls |-> {<<body.path, type>>}]
     ELSE [status |-> 200, calls |-> {<<body.path, type>>}]

\* POST: the status answered and the calls of revalidatePath made
revalidatePOST(e, header, body, pathResult) ==
  LET expectedSecret == e.REVALIDATION_SECRET
      type == IF body.type = undefined THEN Str(<<"page">>) ELSE body.type
  IN IF ~Truthy(expectedSecret) THEN [status |-> 500, calls |-> {}]
     ELSE IF header # expectedSecret THEN [status |-> 401, calls |-> {}]
     ELSE IF ~body.json THEN [status |-> 500, calls |-> {}]
     ELSE IF ~Truthy(body.path) THEN [status |-> 400, calls |-> {}]
     ELSE IF pathResult = "throws"
     THEN [status |-> 500, calls |-> {<<body.path, type>>}]
     ELSE [status |-> 200, calls |-> {<<body.path, type>>}]

revalidateGET == [status |-> 405, calls |-> {}]

\* one request, handled to its response
Answer(method, header, body, r) ==
  /\ revalidated' = revalidated \cup r.calls
  /\ revalidation' = [method |-> method, status |-> r.status, header |-> header,
                      json |-> body.json, path |-> body.path,
                      called |-> r.calls # {}, turn |-> ~revalidation.turn]
  /\ UNCHANGED <<contactVars, outsideRevalidate>>

RevalidatePost(header, body, pathResult) ==
  Answer("POST", header, body, revalidatePOST(env, header, body, pathResult))

RevalidateGet(header, body) == Answer("GET", header, body, revalidateGET)

RevalidateInit ==
  /\ LightboxIdle
  /\ PanelIdle
  /\ PaginationIdle
  /\ RevalidateIdle
  /\ submissionStore = EmptyMap
  /\ now = 0
  /\ env \in [RESEND_API_KEY : {TRUE}, CONTACT_EMAIL : {TRUE},
               REVALIDATION_SECRET : EnvSecrets]
  /\ response = NoResponse
  /\ granted = EmptyMap
  /\ uncleanedStore = EmptyMap

RevalidateNext ==
  \/ \E header \in HeaderValues, body \in RevalidateBodies,
        pathResult \in PathResults : RevalidatePost(header, body, pathResult)
  \/ \E header \in HeaderValues, body \in RevalidateBodies :
       RevalidateGet(header, body)

RevalidateSpec == RevalidateInit /\ [][RevalidateNext]_vars

\* a step that handles a request to /api/revalidate
IsRevalidate == revalidation'.turn # revalidation.turn

Configured == Truthy(env.REVALIDATION_SECRET)

MaxPages == 9        \* most pages a gallery has

\* an entry of the page list: a page number, or the string '...'
Page(n) == [kind |-> "page", n |-> n]

Ellipsis == [kind |-> "ellipsis", n |-> 0]

Max(a, b) == IF a > b THEN a ELSE b

Min(a, b) == IF a < b THEN a ELSE b

\* for (let i = from; i <= to; i++) pages.push(i)
PagesFromTo(from, to) == [i \in 1..(to - from + 1) |-> Page(from + i - 1)]

\* a page list that puts the first ellipsis one page too early
getPageNumbersEarlyEllipsis(current, total) ==
  IF total <= 7 THEN PagesFromTo(1, total)
  ELSE <<Page(1)>>
       \o (IF current > 2 THEN <<Ellipsis>> ELSE <<>>)
       \o PagesFromTo(Max(2, current - 1), Min(total - 1, current + 1))
       \o (IF current < total - 2 THEN <<Ellipsis>> ELSE <<>>)
       \o <<Page(total)>>

getPageNumbers(current, total) ==
  IF total <= 7 THEN PagesFromTo(1, total)
  ELSE <<Page(1)>>
       \o (IF current > 3 THEN <<Ellipsis>> ELSE <<>>)
       \o PagesFromTo(Max(2, current - 1), Min(total - 1, current + 1))
       \o (IF current < total - 2 THEN <<Ellipsis>> ELSE <<>>)
       \o <<Page(total)>>

\* what the component returns: null, or the nav with its page list
Pagination(current, total) ==
  IF total <= 1 THEN [t |-> "null", pages |-> <<>>]
  ELSE [t |-> "nav", pages |-> getPageNumbers(current, total)]

\* a gallery page passes page = Math.max(1, Number(rawPage) || 1) and
\* totalPages = Math.ceil(total / PHOTOS_PER_PAGE): the page may lie past
\* the last one
PaginationInit ==
  /\ LightboxIdle
  /\ PanelIdle
  /\ ContactIdle
  /\ RevalidateIdle
  /\ currentPage \in 1..(MaxPages + 1)
  /\ totalPages \in 0..MaxPages
  /\ pageNumbers = [t |-> "none", pages |-> <<>>]

RenderPagination ==
  /\ pageNumbers.t = "none"
  /\ pageNumbers' = Pagination(currentPage, totalPages)
  /\ UNCHANGED <<currentPage, totalPages, outsidePagination>>

PaginationNext == RenderPagination

PaginationSpec == PaginationInit /\ [][PaginationNext]_vars

\* the positions of the list that hold '...'
EllipsisAt == {k \in 1..Len(pageNumbers.pages) : pageNumbers.pages[k] = Ellipsis}

\* C30: for totalPages <= 1 nothing is rendered; for totalPages >= 2 and
\* currentPage in 1..totalPages the list holds page 1, the current and the
\* last page, its page numbers increase strictly, it is 1..totalPages when
\* totalPages <= 7, and every ellipsis stands between two listed pages with
\* at least one page omitted between them.
C30_PageList ==
  pageNumbers.t # "none" =>
    LET pages == pageNumbers.pages
        listed == {pages[k].n : k \in (1..Len(pages)) \ EllipsisAt}
    IN /\ totalPages <= 1 => pageNumbers.t = "null"
       /\ (totalPages >= 2 /\ currentPage \in 1..totalPages) =>
            /\ pageNumbers.t = "nav"
            /\ {1, currentPage, totalPages} \subseteq listed
            /\ \A i, j \in (1..Len(pages)) \ EllipsisAt :
                 i < j => pages[i].n < pages[j].n
            /\ totalPages <= 7 => pages = [i \in 1..totalPages |-> Page(i)]
            /\ \A k \in EllipsisAt :
                 /\ k > 1 /\ k < Len(pages)
                 /\ {k - 1, k + 1} \cap EllipsisAt = {}
                 /\ pages[k + 1].n - pages[k - 1].n >= 2

\* a page in the middle of a long gallery: two ellipses
C30_Witness ==
  /\ pageNumbers.t = "nav" /\ totalPages > 7
  /\ currentPage \in 1..totalPages
  /\ Cardinality(EllipsisAt) = 2

====
